---- MODULE Spec2Model ----
(***************************************************************************)
(* Supervisor-worker coordination core of sc-project-service.              *)
(*                                                                         *)
(* The supervisor (src/supervisor.ts, the variant without the health-check *)
(* loop) is a single-threaded event loop: every handler (a worker's        *)
(* "message" event, a worker's "exit" event, a back-off timer) runs to     *)
(* completion, so each handler is one action.  The registry `workers`      *)
(* holds references to ChildProcess objects; the objects themselves live   *)
(* in `procs`, keyed by pid.                                               *)
(***************************************************************************)
EXTENDS Integers, Sequences, FiniteSets, TLC

\* ------------------------------------------------------------------ bounds
MaxPid == 5          \* processes spawned in one run (3 by the constructor)
MaxInbound == 2      \* envelopes received and calls made from outside in one run
MaxMsgId == 2        \* distinct messageIds
MaxTracks == 3       \* entries pushed to the pending table by direct calls
MaxDbInbound == 2    \* envelopes a DatabaseInteractionWorker receives in one run
MaxPeriods == 3      \* periods of 10 s a worker process is followed for
MaxPosts == 3        \* POST / requests a RestApiWorker receives in one run
MaxKeys == 2         \* distinct idempotent-key header values
MaxCalls == 2        \* requests a RestApiWorker has in flight in one run
MaxFeInbound == 2    \* envelopes a RestApiWorker receives in one run
MaxCount == 4        \* calls of one RequestCounter increment between resets
MaxTime == 90        \* half seconds the supervisor with watchdog is followed for
MaxStart == 3        \* half seconds a spawned worker takes at most to start
MaxWdPid == 5        \* processes the supervisor with watchdog spawns in one run
MaxExits == 2        \* workers that exit on their own in one run

\* --------------------------------------------------------------- constants
Null == "null"               \* JavaScript null
Undefined == <<>>            \* JavaScript undefined, for an optional value
Some(v) == <<v>>             \* an optional value that is present

MsgIds == 1..MaxMsgId

\* Names that occur as worker file names or as the first path segment of a
\* destination.
WorkerNames ==
    {"RestAPIWorker", "DatabaseInteractionWorker", "RabbitMQWorker",
     "GraphQLWorker", "supervisor"}

\* A destination string "Type/method" is held split at "/".
SUPERVISOR == <<"supervisor">>
DbGetDataById == <<"DatabaseInteractionWorker", "getDataById">>
DbGetAllData == <<"DatabaseInteractionWorker", "getAllData">>
GqlOnProcessed == <<"GraphQLWorker", "onProcessedMessage">>
GqlOnProcessedSlash == <<"GraphQLWorker", "onProcessedMessage", "">>
MqProduce == <<"RabbitMQWorker", "produceMessage">>

\* The destination lists DatabaseInteractionWorker puts on its replies.
DbReplyDestinations ==
    {<<GqlOnProcessed>>, <<GqlOnProcessed, GqlOnProcessed>>,
     <<GqlOnProcessedSlash, MqProduce>>}

\* dest.split("/")[0].split(".")[0]; no name of the universe holds a dot.
WorkerNameOf(dest) == IF Len(dest) = 0 THEN "" ELSE dest[1]

\* String.prototype.includes on a spawn argument (".../workers/<type>.ts")
\* for the names of WorkerNames: none is a proper substring of another's path.
\* A test that accepts every spawn argument: a faulty variant, kept to show
\* that the isolation of the types depends on the test.
IncludesAnything(type, name) == TRUE

Includes(type, name) == name = "" \/ name = type

\* src/configs/worker.ts: the static descriptor table.  `config` is opaque to
\* the supervisor and is held as a tag.
workerConfig ==
    [n \in {"DatabaseInteractionWorker", "RestApiWorker", "RabbitMQWorker"} |->
        [count |-> Some(1), config |-> "static"]]

\* { worker: name, ...workerConfig[name] }: spreading undefined adds nothing.
WorkerConfigOf(name) ==
    IF name \in DOMAIN workerConfig
    THEN workerConfig[name]
    ELSE [count |-> Undefined, config |-> "undefined"]

OsStates == {"R", "S"}       \* `ps -o state=`: R, or any other state

VARIABLES
    workers,           \* Supervisor.workers: pids in push order
    procs,             \* pid -> the ChildProcess object
    pendingMessages,   \* Supervisor.pendingMessages: name -> list of envelopes
    nextPid,           \* the pid the next spawn gets
    timers,            \* scheduled back-off re-entries, in firing order
    inbound,           \* envelopes received from workers so far
    sentTo,            \* history: <<pid, messageId>> of every send
    last,              \* what the last handler did
    clock,             \* Date.now(), as the number of the next pending entry
    stamp,             \* <<name, messageId>> -> timestamp of the pending entry
    \* one DatabaseInteractionWorker process
    isBusy,            \* DatabaseInteractionWorker.isBusy
    dbOps,             \* database operations awaited, in the order started
    dbSent,            \* history: envelopes given to sendMessagetoSupervisor
    dbIn,              \* envelopes received so far
    dbLast,            \* what the worker's last step did
    \* one process of each worker type, from its start
    hb,                \* type -> start-up and health-check state
    \* one RestApiWorker process and the Redis it uses
    redis,             \* the idempotency keys Redis holds
    posts,             \* the POST / requests, in order of arrival
    ipc,               \* whether process.send is defined, or the process ended
    \* one RestApiWorker process, its requests to other workers
    feReqs,            \* the calls of sendMessageToOtherWorker, in order
    feIn,              \* envelopes received so far
    feCrashed,         \* the process has ended on an unhandled rejection
    feLast,            \* what the worker's last step did
    \* the RequestCounter singleton of one worker process
    rcStats,           \* RequestCounter.stats, without startTime
    rcCalls,           \* calls of each increment since the last reset
    gql,               \* the resolver calls in flight that use the counter
    \* the supervisor with the health-check loop, and real time
    wd                 \* its registry, health table, processes and clock

supVars == <<workers, procs, pendingMessages, nextPid, timers, inbound, sentTo,
             last, clock, stamp>>

dbVars == <<isBusy, dbOps, dbSent, dbIn, dbLast>>

hbVars == <<hb>>

restVars == <<redis, posts, ipc>>

feVars == <<feReqs, feIn, feCrashed, feLast>>

rcVars == <<rcStats, rcCalls, gql>>

wdVars == <<wd>>

vars == <<supVars, dbVars, hbVars, restVars, feVars, rcVars, wdVars>>

\* What a step of the supervisor, of the DatabaseInteractionWorker, of a
\* worker's start-up and health check leaves alone.
outsideSup == <<dbVars, hbVars, restVars, feVars, rcVars, wdVars>>

outsideDb == <<supVars, hbVars, restVars, feVars, rcVars, wdVars>>

outsideHb == <<supVars, dbVars, restVars, feVars, rcVars, wdVars>>

outsideRest == <<supVars, dbVars, hbVars, feVars, rcVars, wdVars>>

outsideFe == <<supVars, dbVars, hbVars, restVars, rcVars, wdVars>>

outsideRc == <<supVars, dbVars, hbVars, restVars, feVars, wdVars>>

outsideWd == <<supVars, dbVars, hbVars, restVars, feVars, rcVars>>

\* ---------------------------------------------------------------- helpers
SeqToSet(q) == {q[i] : i \in 1..Len(q)}

\* Array.prototype.filter keeping the entries equal to d.
FilterEq(q, d) == SelectSeq(q, LAMBDA x : x = d)

HasId(list, id) == \E i \in 1..Len(list) : list[i].messageId = id

\* The entries of a destination list that name a peer, in order.
PeerEntries(destination) ==
    SelectSeq(destination, LAMBDA d : d # <<"supervisor">>)

\* The supervisor's mutable state threaded through one handler, with the
\* log of what the handler did.
\* `running` and `fresh` are what `ps -o state=` answers while the handler
\* runs: R for the pids of `running`, and `fresh` for a process the handler
\* itself spawned.  `failing` holds the pids for which the command fails.
Sup(running, fresh) ==
    [workers |-> workers, procs |-> procs, pending |-> pendingMessages,
     nextPid |-> nextPid, newTimers |-> <<>>, sends |-> <<>>,
     creates |-> <<>>, decisions |-> <<>>, running |-> running,
     fresh |-> fresh, failing |-> {},
     firstNew |-> nextPid, threw |-> FALSE]

\* execSync(`ps -o state= -p ${pid}`).toString().trim()
PsState(s, pid) ==
    IF pid >= s.firstNew THEN s.fresh
    ELSE IF pid \in s.running THEN "R" ELSE "S"

\* execSync throws when the command exits with a status other than 0.  The
\* filter of handleSendMessageWorker runs it for every registered worker,
\* whatever its type.
PsFails(s) == \E pid \in SeqToSet(s.workers) : pid \in s.failing

\* ----------------------------------------------------------- isWorkerAlive
IsWorkerAlive(p) == p.exitCode = Null /\ ~p.killed

\* One call of worker.send(msg), logged with what the supervisor could see
\* of the target at that moment, and whether the pending list of the
\* target's type then held the messageId.
SendRec(s, pid, msg, via) ==
    [to |-> pid, msg |-> msg, via |-> via,
     killed |-> s.procs[pid].killed, exitCode |-> s.procs[pid].exitCode,
     registry |-> s.workers,
     tracked |-> HasId(s.pending[s.procs[pid].type], msg.messageId)]

\* ------------------------------------------------------ pending-table logic
\* trackPendingMessage putting the entry first instead of last: a faulty
\* variant, kept to show that the replay order depends on the push.
TrackPendingMessageFirst(pending, workerName, message) ==
    IF workerName = "" THEN pending
    ELSE IF HasId(pending[workerName], message.messageId) THEN pending
    ELSE [pending EXCEPT ![workerName] = <<message>> \o @]

\* trackPendingMessage without the messageId test: a faulty variant, kept to
\* show that the dedup property depends on the test.
TrackPendingMessageNoDedup(pending, workerName, message) ==
    IF workerName = "" THEN pending
    ELSE [pending EXCEPT ![workerName] = Append(@, message)]

TrackPendingMessage(pending, workerName, message) ==
    IF workerName = "" THEN pending
    ELSE IF HasId(pending[workerName], message.messageId) THEN pending
    ELSE [pending EXCEPT ![workerName] = Append(@, message)]

RemovePendingMessage(pending, workerName, messageId) ==
    IF workerName = "" THEN pending
    ELSE [pending EXCEPT ![workerName] =
              SelectSeq(@, LAMBDA m : m.messageId # messageId)]

\* The find of resendPendingMessages without isWorkerAlive: a faulty
\* variant, kept to show that the no-revival property depends on the test.
ResendCandidatesNotChecked(s, workerName) ==
    SelectSeq(s.workers, LAMBDA pid : Includes(s.procs[pid].type, workerName))

\* The workers resendPendingMessages may pick: same name and alive.
ResendCandidates(s, workerName) ==
    SelectSeq(s.workers, LAMBDA pid :
        Includes(s.procs[pid].type, workerName) /\ IsWorkerAlive(s.procs[pid]))

\* resendPendingMessages emptying the list it has sent: a faulty variant,
\* kept to show that the frame property depends on the list being left alone.
ResendPendingMessagesClearing(s, workerName) ==
    LET messages == s.pending[workerName]
        found == ResendCandidates(s, workerName)
    IN  IF Len(messages) = 0 \/ Len(found) = 0 THEN s
        ELSE [s EXCEPT !.sends = @ \o
                 [i \in 1..Len(messages) |->
                     SendRec(s, found[1], messages[i], "drain")],
                       !.pending[workerName] = <<>>]

ResendPendingMessages(s, workerName) ==
    LET messages == s.pending[workerName]
        found == ResendCandidates(s, workerName)
    IN  IF Len(messages) = 0 \/ Len(found) = 0 THEN s
        ELSE [s EXCEPT !.sends = @ \o
                 [i \in 1..Len(messages) |->
                     SendRec(s, found[1], messages[i], "drain")]]

\* ------------------------------------------------------------ createWorker
\* spawn(): a new ChildProcess, pushed to the registry.  `cause` is the pid
\* whose exit or restart asked for the spawn, 0 otherwise.
NewProc(worker, config, cause) ==
    [type |-> worker, config |-> config, killed |-> FALSE, exitCode |-> Null,
     exited |-> FALSE, replaces |-> cause]

SpawnWorkers(s, worker, n, config, cause) ==
    LET pids == [i \in 1..n |-> s.nextPid + i - 1]
    IN  [s EXCEPT
            !.workers = @ \o pids,
            !.procs = [p \in (DOMAIN @) \cup SeqToSet(pids) |->
                          IF p \in DOMAIN @ THEN @[p]
                          ELSE NewProc(worker, config, cause)],
            !.nextPid = @ + n]

\* createWorker without the test of count: a faulty variant, kept to show
\* that the rejection of a count <= 0 depends on the test.
CreateWorkerUnchecked(s, worker, count, config, cause) ==
    LET n == IF count = Undefined \/ count[1] <= 0 THEN 0 ELSE count[1]
        s1 == SpawnWorkers(s, worker, n, config, cause)
        s2 == [s1 EXCEPT !.creates =
                   Append(@, [worker |-> worker, count |-> count,
                              cause |-> cause])]
    IN  ResendPendingMessages(s2, worker)

\* createWorker draining the pending list before the spawn: a faulty
\* variant, kept to show that the exit-handler property depends on the order.
CreateWorkerDrainFirst(s, worker, count, config, cause) ==
    IF count # Undefined /\ count[1] <= 0 THEN [s EXCEPT !.threw = TRUE]
    ELSE LET n == IF count = Undefined THEN 0 ELSE count[1]
             s1 == ResendPendingMessages(s, worker)
             s2 == SpawnWorkers(s1, worker, n, config, cause)
         IN  [s2 EXCEPT !.creates =
                 Append(@, [worker |-> worker, count |-> count,
                            cause |-> cause])]

CreateWorker(s, worker, count, config, cause) ==
    IF count # Undefined /\ count[1] <= 0 THEN [s EXCEPT !.threw = TRUE]
    ELSE LET n == IF count = Undefined THEN 0 ELSE count[1]
             s1 == SpawnWorkers(s, worker, n, config, cause)
             s2 == [s1 EXCEPT !.creates =
                        Append(@, [worker |-> worker, count |-> count,
                                   cause |-> cause])]
         IN  ResendPendingMessages(s2, worker)

\* ----------------------------------------------------------- restartWorker
\* subprocess.kill(): the flag is set when the signal was delivered.
Kill(s, pid) ==
    IF s.procs[pid].exited THEN s
    ELSE [s EXCEPT !.procs[pid].killed = TRUE]

RestartWorker(s, pid) ==
    LET workerName == s.procs[pid].type
        cfg == WorkerConfigOf(workerName)
        s1 == CreateWorker(Kill(s, pid), workerName, cfg.count, cfg.config, pid)
    IN  IF s1.threw THEN s1 ELSE ResendPendingMessages(s1, workerName)

\* -------------------------------------------------- handleSendMessageWorker
\* The filter of lines 233-243: same name, alive, and not in OS state R.
AvailableWorkers(s, workerName) ==
    SelectSeq(s.workers, LAMBDA pid :
        /\ Includes(s.procs[pid].type, workerName)
        /\ IsWorkerAlive(s.procs[pid])
        /\ PsState(s, pid) # "R")

IsServerBusy(message) ==
    message.status = "failed" /\ message.reason = "SERVER_BUSY"

\* Lines 297-312: the liveness recheck, then the send.
SendToTarget(s, target, message) ==
    IF IsWorkerAlive(s.procs[target])
    THEN [s EXCEPT !.sends = Append(@, SendRec(s, target, message, "route"))]
    ELSE s

\* The body of the forEach with trackPendingMessage called last instead of
\* first: a faulty variant, kept to show that track-before-send depends on
\* the order of the calls.
RouteOneSendFirst(s, processId, message, dest) ==
    LET workerName == WorkerNameOf(dest)
        availableWorkers == AvailableWorkers(s, workerName)
        s1 == [s EXCEPT
                  !.decisions = Append(@, [dest |-> dest,
                                           message |-> message])]
        cfg == WorkerConfigOf(workerName)
        others == IF IsServerBusy(message)
                  THEN SelectSeq(availableWorkers, LAMBDA pid : pid # processId)
                  ELSE availableWorkers
        r == IF message.status = "error"
             THEN IF processId \in SeqToSet(s1.workers)
                  THEN RestartWorker(s1, processId)
                  ELSE s1
             ELSE IF Len(availableWorkers) = 0
             THEN CreateWorker(s1, workerName, cfg.count, cfg.config, 0)
             ELSE IF Len(others) = 0
             THEN [s1 EXCEPT !.newTimers =
                      Append(@, [message |-> message, processId |-> processId])]
             ELSE SendToTarget(s1, others[1], message)
    IN  IF PsFails(s) THEN [s EXCEPT !.threw = TRUE]
        ELSE [r EXCEPT !.pending = TrackPendingMessage(@, workerName, message)]

\* The body of the forEach over message.destination, for one entry: one
\* forwarding decision, logged with the envelope it is made for.
RouteOne(s, processId, message, dest) ==
    LET workerName == WorkerNameOf(dest)
        availableWorkers == AvailableWorkers(s, workerName)
        s1 == [s EXCEPT
                  !.pending = TrackPendingMessage(@, workerName, message),
                  !.decisions = Append(@, [dest |-> dest,
                                           message |-> message])]
        cfg == WorkerConfigOf(workerName)
        others == IF IsServerBusy(message)
                  THEN SelectSeq(availableWorkers, LAMBDA pid : pid # processId)
                  ELSE availableWorkers
    IN  IF PsFails(s) THEN [s EXCEPT !.threw = TRUE]
        ELSE IF message.status = "error"
        THEN IF processId \in SeqToSet(s1.workers)
             THEN RestartWorker(s1, processId)
             ELSE s1
        ELSE IF Len(availableWorkers) = 0
        THEN CreateWorker(s1, workerName, cfg.count, cfg.config, 0)
        ELSE IF Len(others) = 0
        THEN [s1 EXCEPT !.newTimers =
                 Append(@, [message |-> message, processId |-> processId])]
        ELSE SendToTarget(s1, others[1], message)

RECURSIVE RouteFrom(_, _, _, _)
RouteFrom(s, processId, message, i) ==
    IF i > Len(message.destination) \/ s.threw THEN s
    ELSE RouteFrom(RouteOne(s, processId, message, message.destination[i]),
                   processId, message, i + 1)

HandleSendMessageWorker(s, processId, message) ==
    RouteFrom(s, processId, message, 1)

\* ------------------------------------------------------ handleWorkerMessage
\* The body of the forEach without the reassignment of message.destination:
\* a faulty variant, kept to show that the destinations of the pending
\* entries depend on it.
DispatchOneWholeList(s, processId, message, dest) ==
    IF dest # SUPERVISOR
    THEN HandleSendMessageWorker(s, processId, message)
    ELSE IF message.status = "completed"
    THEN [s EXCEPT !.pending =
             RemovePendingMessage(@, WorkerNameOf(dest), message.messageId)]
    ELSE s

\* The body of the forEach over the received destination list, for one
\* entry.  message.destination is reassigned before each routing call.
DispatchOne(s, processId, message, dest) ==
    IF dest # SUPERVISOR
    THEN HandleSendMessageWorker(s, processId,
             [message EXCEPT !.destination = FilterEq(@, dest)])
    ELSE IF message.status = "completed"
    THEN [s EXCEPT !.pending =
             RemovePendingMessage(@, WorkerNameOf(dest), message.messageId)]
    ELSE s

RECURSIVE DispatchFrom(_, _, _, _)
DispatchFrom(s, processId, message, i) ==
    IF i > Len(message.destination) \/ s.threw THEN s
    ELSE DispatchFrom(DispatchOne(s, processId, message, message.destination[i]),
                      processId, message, i + 1)

\* The value message.destination holds once the forEach is over: the filter
\* made for the last entry that is not "supervisor".
FinalDestination(destination) ==
    LET peers == {i \in 1..Len(destination) : destination[i] # SUPERVISOR}
    IN  IF peers = {} THEN destination
        ELSE FilterEq(destination,
                 destination[CHOOSE i \in peers : \A j \in peers : j <= i])

\* The timer callback without the status override: a faulty variant, kept
\* to show that the progress of a backed-off envelope depends on it.
ReentryKeepsStatus(t, destination) ==
    [message |-> [t.message EXCEPT !.destination = destination],
     processId |-> t.processId]

\* A timer callback reads the message object when it fires: it sees the
\* destination the object was left with, and status "completed".
Reentry(t, destination) ==
    [message |-> [t.message EXCEPT !.destination = destination,
                                   !.status = "completed"],
     processId |-> t.processId]

HandleWorkerMessage(s, message, processId) ==
    DispatchFrom(s, processId, message, 1)

\* ------------------------------------------------------------ exit handler
\* Lines 169-178: drop the child from the registry, spawn one replacement
\* with the options captured by the closure, which drains the pending list.
ExitHandler(s, pid) ==
    LET p == s.procs[pid]
        s1 == [s EXCEPT
                  !.procs[pid].exitCode = IF p.killed THEN Null ELSE 1,
                  !.procs[pid].exited = TRUE,
                  !.workers = SelectSeq(@, LAMBDA w : w # pid)]
    IN  CreateWorker(s1, p.type, Some(1), p.config, pid)

\* ----------------------------------------------------------------- actions
Statuses == {"completed", "failed", "error", "healthy"}

DestinationLists ==
    {<<SUPERVISOR>>, <<DbGetDataById>>, <<DbGetDataById, DbGetAllData>>,
     <<GqlOnProcessed, GqlOnProcessed>>, <<GqlOnProcessedSlash, MqProduce>>}

Envelopes ==
    {[messageId |-> id, status |-> st, reason |-> r, destination |-> d] :
        id \in MsgIds, st \in Statuses, r \in {"", "SERVER_BUSY"},
        d \in DestinationLists}

\* What a worker process can put on its channel.
Inbound ==
    {e \in Envelopes :
        \/ e.status = "completed" /\ e.reason = ""
        \/ e.status = "failed" /\ e.reason = "SERVER_BUSY"
               /\ e.destination \in {<<DbGetDataById>>}
        \/ e.status = "error" /\ e.reason = ""
               /\ e.destination \in {<<SUPERVISOR>>, <<DbGetDataById>>}
        \/ e.status = "healthy" /\ e.reason = ""
               /\ e.destination = <<SUPERVISOR>>}

NoMessage == [messageId |-> 0, status |-> "none", reason |-> "",
              destination |-> <<>>]

\* The arguments of a direct call of createWorker; none for a handler.
NoCall == [worker |-> "", count |-> Undefined]

NoLast == [kind |-> "init", pid |-> 0, message |-> NoMessage,
           running |-> {}, fresh |-> "S", spawned |-> {},
           sends |-> <<>>, creates |-> <<>>, decisions |-> <<>>,
           timers |-> <<>>, threw |-> FALSE, call |-> NoCall,
           failing |-> {}]

\* The registered workers whose OS state the routing of `message` reads to
\* any effect: those its destinations name that are alive.
Probed(message) ==
    {pid \in SeqToSet(workers) :
        /\ IsWorkerAlive(procs[pid])
        /\ \E i \in 1..Len(message.destination) :
               /\ message.destination[i] # SUPERVISOR
               /\ Includes(procs[pid].type,
                           WorkerNameOf(message.destination[i]))}

\* The state of a process spawned by the handler is read only when a later
\* destination entry is routed.
FreshStates(message) ==
    IF Len(message.destination) > 1 THEN OsStates ELSE {"S"}

\* No listener is installed for uncaughtException: an exception thrown by an
\* event handler ends the supervisor process.
Crashed == last.threw /\ last.kind \in {"message", "timer", "exit"}

CommitCall(s, kind, pid, message, timersLeft, call) ==
    LET final == FinalDestination(message.destination)
        added == [i \in 1..Len(s.newTimers) |-> Reentry(s.newTimers[i], final)]
    IN  /\ s.nextPid <= MaxPid + 1
        /\ ~Crashed
        /\ UNCHANGED <<clock, stamp, outsideSup>>
        /\ workers' = s.workers
        /\ procs' = s.procs
        /\ pendingMessages' = s.pending
        /\ nextPid' = s.nextPid
        /\ timers' = timersLeft \o added
        /\ sentTo' = sentTo \cup
               {<<s.sends[i].to, s.sends[i].msg.messageId>> : i \in 1..Len(s.sends)}
        /\ last' = [kind |-> kind, pid |-> pid, message |-> message,
                    running |-> s.running, fresh |-> s.fresh,
                    spawned |-> s.firstNew..(s.nextPid - 1),
                    sends |-> s.sends, creates |-> s.creates,
                    decisions |-> s.decisions, timers |-> added,
                    threw |-> s.threw, call |-> call,
                    failing |-> s.failing]

\* An event handler: an exception leaves the handler where it was thrown,
\* with the assignments made until then.
Commit(s, kind, pid, message, timersLeft) ==
    CommitCall(s, kind, pid, message, timersLeft, NoCall)

\* A worker's "message" event.
WorkerMessage ==
    \E pid \in DOMAIN procs, message \in Inbound :
        \E running \in SUBSET Probed(message), fresh \in FreshStates(message) :
            /\ inbound < MaxInbound
            /\ inbound' = inbound + 1
            /\ Commit(HandleWorkerMessage(Sup(running, fresh), message, pid),
                      "message", pid, message, timers)

\* A worker's "message" event with a peer destination, handled while the ps
\* command fails for one registered worker.
WorkerMessagePsFails ==
    \E pid \in DOMAIN procs, message \in Inbound, f \in SeqToSet(workers) :
        /\ inbound < MaxInbound
        /\ inbound' = inbound + 1
        /\ PeerEntries(message.destination) # <<>>
        /\ Commit(HandleWorkerMessage([Sup({}, "S") EXCEPT !.failing = {f}],
                                      message, pid),
                  "message", pid, message, timers)

\* A registered worker's "exit" event.
WorkerExit ==
    \E pid \in SeqToSet(workers) :
        /\ UNCHANGED inbound
        /\ Commit(ExitHandler(Sup({}, "S"), pid), "exit", pid, NoMessage, timers)

\* The 5 s back-off timer fires and re-enters the routing flow.
TimerFires ==
    /\ timers # <<>>
    /\ \E running \in SUBSET Probed(Head(timers).message),
          fresh \in FreshStates(Head(timers).message) :
            /\ UNCHANGED inbound
            /\ Commit(HandleWorkerMessage(Sup(running, fresh),
                          Head(timers).message, Head(timers).processId),
                      "timer", Head(timers).processId, Head(timers).message,
                      Tail(timers))

\* createWorker is public: a direct call, as the constructor and the tests
\* make it, with a count of either sign.
CallWorkers == {"DatabaseInteractionWorker", "RabbitMQWorker"}

CallCounts == {-1, 0, 1, 2}

CreateWorkerCall ==
    \E worker \in CallWorkers, count \in CallCounts :
        /\ inbound < MaxInbound
        /\ inbound' = inbound + 1
        /\ CommitCall(CreateWorker(Sup({}, "S"), worker, Some(count), "call", 0),
                      "create", 0, NoMessage, timers,
                      [worker |-> worker, count |-> Some(count)])

\* =============================================== DatabaseInteractionWorker
\* One worker process (src/workers/DatabaseInteractionWorker.ts).  A handler
\* runs to its first await; a database operation it started completes in a
\* later step, in any order.
DbCreateNewData == <<"DatabaseInteractionWorker", "createNewData">>
DbGetByKeyword == <<"DatabaseInteractionWorker", "getDataByKeywordAndRange">>

\* The methods this[path] finds on the worker that run a database operation.
DbMethods ==
    {"updateStatus", "getAllData", "getAllDataPaginated", "getDataById",
     "removeProject", "getDataByKeywordAndRange", "createNewData"}

\* The worker types that send requests and wait for the reply.
FrontEnds == {"RestApiWorker", "GraphQLWorker"}

\* String.prototype.includes on a destination string, held split at "/".
DestIncludes(d, name) == \E i \in 1..Len(d) : d[i] = name

\* sendMessagetoSupervisor: the envelope given to process.send, the
\* destination defaulting to ["supervisor"] when it is undefined.
SendMessagetoSupervisor(messageId, status, reason, destination) ==
    [messageId |-> messageId, status |-> status, reason |-> reason,
     destination |-> IF destination = Undefined THEN <<SUPERVISOR>>
                     ELSE destination[1]]

\* What a method resolves to: an object with a destination, a value without
\* one (the [] of getAllData's catch), undefined, or a rejection.
DbValue(destination) == [kind |-> "value", destination |-> destination]

DbResults(path) ==
    CASE path = "getAllData" ->
             {DbValue(Some(<<GqlOnProcessed>>)), DbValue(Undefined)}
      [] path = "getDataById" ->
             {DbValue(Some(<<GqlOnProcessed, GqlOnProcessed>>)),
              DbValue(Some(<<GqlOnProcessed>>))}
      [] path = "createNewData" ->
             {DbValue(Some(<<GqlOnProcessedSlash, MqProduce>>)),
              [kind |-> "undefined", destination |-> Undefined]}
      [] path = "removeProject" ->
             {DbValue(Some(<<GqlOnProcessed>>)),
              [kind |-> "rejected", destination |-> Undefined]}
      \* toArray()[0] is undefined, so data.length throws and the catch rejects
      [] path = "getDataByKeywordAndRange" ->
             {[kind |-> "rejected", destination |-> Undefined]}
      [] OTHER -> {DbValue(Some(<<GqlOnProcessed>>))}

\* The worker's fields threaded through one handler, with what it sent.
Db == [isBusy |-> isBusy, ops |-> dbOps, sent |-> <<>>, started |-> 0]

\* The destination entries for which the handler starts a method.
DbCalls(message) ==
    SelectSeq(message.destination, LAMBDA d :
        /\ DestIncludes(d, "DatabaseInteractionWorker")
        /\ Len(d) >= 2
        /\ d[2] \in DbMethods)

\* The "message" handler without the isBusy test: a faulty variant, kept to
\* show that the SERVER_BUSY reply depends on the test.
ListenTaskNoBusyTest(w, message, origin) ==
    LET calls == DbCalls(message)
    IN  [w EXCEPT
            !.isBusy = FALSE,
            !.ops = @ \o [i \in 1..Len(calls) |->
                             [messageId |-> message.messageId,
                              path |-> calls[i][2], origin |-> origin]],
            !.started = Len(calls)]

\* The "message" handler of listenTask, to its first await.  `origin` is the
\* type of the worker that sent the request; the envelope does not carry it.
ListenTask(w, message, origin) ==
    IF w.isBusy
    THEN [w EXCEPT !.sent = Append(@,
             SendMessagetoSupervisor(message.messageId, "failed",
                 "SERVER_BUSY", Some(message.destination)))]
    ELSE LET calls == DbCalls(message)
         IN  [w EXCEPT
                 !.isBusy = FALSE,
                 !.ops = @ \o [i \in 1..Len(calls) |->
                                  [messageId |-> message.messageId,
                                   path |-> calls[i][2], origin |-> origin]],
                 !.started = Len(calls)]

\* The rest of the forEach callback, once the method has settled.
DbReply(op, result) ==
    IF result.kind = "value"
    THEN <<SendMessagetoSupervisor(op.messageId, "completed", "",
                                   result.destination)>>
    ELSE <<>>

DbDestinationLists ==
    {<<DbGetAllData>>, <<DbGetDataById>>, <<DbCreateNewData>>,
     <<DbGetByKeyword>>, <<DbGetDataById, DbGetAllData>>,
     <<DbGetAllData, MqProduce>>}

\* The envelopes the supervisor forwards to the worker.
DbRequests ==
    {[messageId |-> id, status |-> "completed", reason |-> "",
      destination |-> d] : id \in MsgIds, d \in DbDestinationLists}

NoDbLast == [kind |-> "init", message |-> NoMessage, origin |-> "",
             wasBusy |-> FALSE, started |-> 0, sent |-> <<>>]

InitDb ==
    /\ isBusy = FALSE
    /\ dbOps = <<>>
    /\ dbSent = {}
    /\ dbIn = 0
    /\ dbLast = NoDbLast

DbCommit(w, kind, message, origin) ==
    /\ isBusy' = w.isBusy
    /\ dbOps' = w.ops
    /\ dbSent' = dbSent \cup {[env |-> w.sent[i], origin |-> origin] :
                                  i \in 1..Len(w.sent)}
    /\ dbLast' = [kind |-> kind, message |-> message, origin |-> origin,
                  wasBusy |-> isBusy, started |-> w.started, sent |-> w.sent]
    /\ UNCHANGED outsideDb

\* process.on("message"): an envelope arrives.
DbReceive ==
    \E message \in DbRequests, origin \in FrontEnds :
        /\ dbIn < MaxDbInbound
        /\ dbIn' = dbIn + 1
        /\ DbCommit(ListenTask(Db, message, origin), "receive", message, origin)

\* An awaited method settles and its callback goes on.
DbSettles ==
    \E i \in 1..Len(dbOps) :
        \E result \in DbResults(dbOps[i].path) :
            /\ UNCHANGED dbIn
            /\ DbCommit([Db EXCEPT
                            !.ops = [j \in 1..(Len(@) - 1) |->
                                        IF j < i THEN @[j] ELSE @[j + 1]],
                            !.sent = DbReply(dbOps[i], result)],
                        "settle",
                        [NoMessage EXCEPT !.messageId = dbOps[i].messageId],
                        dbOps[i].origin)

\* isBusy is a public field: the owner of the object assigns it.
DbBusyAssigned ==
    /\ ~isBusy
    /\ UNCHANGED dbIn
    /\ DbCommit([Db EXCEPT !.isBusy = TRUE], "assign", NoMessage, "")

NextDb == DbReceive \/ DbSettles \/ DbBusyAssigned

\* ================================================ start-up and healthCheck
\* One process of each worker type: what run() installs, and the envelopes
\* the 10 s interval emits.
WorkerTypes ==
    {"RestApiWorker", "GraphQLWorker", "RabbitMQWorker",
     "DatabaseInteractionWorker"}

\* The instanceId the constructor builds: the type name and a unique part.
\* RabbitMQWorker spells its own name "RabbitMqWorker" there.
InstanceId(type) ==
    <<IF type = "RabbitMQWorker" THEN "RabbitMqWorker" ELSE type, "instance">>

\* The callback of healthCheck's setInterval.
HealthBeat(type) ==
    [env |-> SendMessagetoSupervisor(1, "healthy", "", Undefined),
     instanceId |-> InstanceId(type)]

NoBeat == [env |-> NoMessage, instanceId |-> <<>>]

\* Whether run() reaches this.healthCheck().  RabbitMQWorker calls it once
\* amqp.connect has resolved; DatabaseInteractionWorker has no healthCheck.
InstallsInterval(type, connected) ==
    CASE type \in {"RestApiWorker", "GraphQLWorker"} -> TRUE
      [] type = "RabbitMQWorker" -> connected
      [] OTHER -> FALSE

InitHb ==
    hb = [type \in WorkerTypes |->
             [started |-> FALSE, interval |-> FALSE, age |-> 0,
              emitted |-> 0, beat |-> NoBeat]]

\* new <Worker>(): the constructor calls run().
HbStart ==
    \E type \in WorkerTypes, connected \in BOOLEAN :
        /\ ~hb[type].started
        /\ hb' = [hb EXCEPT ![type].started = TRUE,
                            ![type].interval = InstallsInterval(type, connected)]
        /\ UNCHANGED outsideHb

\* Ten more seconds of a running worker pass: its interval, if any, fires.
HbPeriod ==
    \E type \in WorkerTypes :
        /\ hb[type].started
        /\ hb[type].age < MaxPeriods
        /\ hb' = [hb EXCEPT
                     ![type].age = @ + 1,
                     ![type].emitted = IF hb[type].interval THEN @ + 1 ELSE @,
                     ![type].beat = IF hb[type].interval THEN HealthBeat(type)
                                    ELSE @]
        /\ UNCHANGED outsideHb

NextHb == HbStart \/ HbPeriod

\* ============================================== RestApiWorker.postData
\* One RestApiWorker process (src/workers/RestApiWorker.ts).  postData runs
\* from one await to the next; each request is at one of its awaits.
Keys == 1..MaxKeys

NoKey == 0                   \* no idempotent-key header

\* res.status(code).json(body), the body held as its error or message text.
Respond(req, code, text) ==
    [req EXCEPT !.pc = "done", !.status = code, !.text = text]

\* sendMessageToOtherWorker: the envelope given to sendMessagetoSupervisor,
\* with a messageId of its own.
SendMessageToOtherWorker(req, messageId, destination) ==
    [req EXCEPT !.sent = Append(@,
        SendMessagetoSupervisor(messageId, "completed", "", Some(destination)))]

\* postData past getuserId without the test of the header: a faulty
\* variant, kept to show that the 400 answer depends on the test.
PostAfterAuthNoKeyTest(req) ==
    IF ~req.auth THEN Respond(req, 500, "Internal Server Error")
    ELSE [req EXCEPT !.pc = "check"]

\* postData from the settling of getuserId to the await of checkIdempotent.
PostAfterAuth(req) ==
    IF ~req.auth THEN Respond(req, 500, "Internal Server Error")
    ELSE IF req.key = NoKey
    THEN Respond(req, 400, "Idempotent key required")
    ELSE [req EXCEPT !.pc = "check"]

\* postData from the settling of checkIdempotent to the next await.
PostAfterCheck(req, messageId, isIdempotent) ==
    IF isIdempotent
    THEN Respond(SendMessageToOtherWorker(req, messageId, <<DbGetByKeyword>>),
                 208, "Operation already processed")
    ELSE [req EXCEPT !.pc = "set"]

\* postData from the settling of setIdempotent to the await of the reply.
PostAfterSet(req, messageId) ==
    [SendMessageToOtherWorker(req, messageId, <<DbCreateNewData>>)
        EXCEPT !.pc = "await", !.keySet = TRUE, !.op = "started"]

\* process.send is undefined in a process that was started without an IPC
\* channel, and stays what it is for the life of the process.  It is
\* "unknown" until the first call looks at it.
Channels == IF ipc = "unknown" THEN {"channel", "none"} ELSE {ipc}

\* The 208 branch when process.send is undefined: the executor of
\* sendMessageToOtherWorker throws, the promise it returns is rejected and
\* is not awaited, and the response is sent with it as `data`.
PostAfterCheckThrows(req) ==
    Respond(req, 208, "Operation already processed")

\* postData from the settling of setIdempotent when process.send is
\* undefined: the awaited promise is rejected and the catch answers 500.
PostAfterSetThrows(req) ==
    [Respond(req, 500, "Internal Server Error") EXCEPT !.keySet = TRUE]

\* What becomes of the request once createNewData has settled in the
\* DatabaseInteractionWorker: the forEach callback sends a reply, or it
\* throws at the destructuring of the result and sends nothing.
PostAfterDb(req, messageId, result) ==
    LET op == [messageId |-> messageId, path |-> "createNewData",
               origin |-> "RestApiWorker"]
    IN  [req EXCEPT !.op = IF DbReply(op, result) = <<>> THEN "lost"
                           ELSE "replied"]

\* postData once the reply has come: removeIdempotent is called, not
\* awaited, and the response is sent.
PostAfterReply(req) ==
    [req EXCEPT !.pc = "del", !.status = 201, !.text = ""]

\* Whether an earlier POST with the key has been answered 201.
Created(key) ==
    \E i \in 1..Len(posts) : posts[i].key = key /\ posts[i].status = 201

\* Whether an earlier POST with the key has been answered 500 after it had
\* set the key.
FailedAfterSet(key) ==
    \E i \in 1..Len(posts) :
        posts[i].key = key /\ posts[i].status = 500 /\ posts[i].keySet

NewPost(key, auth) ==
    [key |-> key, auth |-> auth, pc |-> "auth", status |-> 0, text |-> "",
     sent |-> <<>>, keySet |-> FALSE, op |-> "none",
     afterCreated |-> key # NoKey /\ Created(key),
     afterFailed |-> key # NoKey /\ FailedAfterSet(key)]

InitRest ==
    /\ redis = {}
    /\ posts = <<>>
    /\ ipc = "unknown"

\* POST / arrives: postData runs to the await of getuserId.
PostArrives ==
    \E key \in Keys \cup {NoKey}, auth \in BOOLEAN :
        /\ Len(posts) < MaxPosts
        /\ ipc # "ended"
        /\ posts' = Append(posts, NewPost(key, auth))
        /\ UNCHANGED <<redis, ipc, outsideRest>>

\* getuserId settles.
PostAuthSettles ==
    \E r \in 1..Len(posts) :
        /\ posts[r].pc = "auth"
        /\ ipc # "ended"
        /\ posts' = [posts EXCEPT ![r] = PostAfterAuth(@)]
        /\ UNCHANGED <<redis, ipc, outsideRest>>

\* Redis answers the GET of checkIdempotent.  In the 208 branch without a
\* channel the rejected promise is unhandled: the process ends, or the
\* rejection is only reported.
PostCheckSettles ==
    \E r \in 1..Len(posts), channel \in Channels, exits \in BOOLEAN :
        /\ posts[r].pc = "check"
        /\ ipc # "ended"
        /\ IF posts[r].key \notin redis
           THEN /\ posts' = [posts EXCEPT ![r] = PostAfterCheck(@, r, FALSE)]
                /\ ipc' = ipc
           ELSE IF channel = "channel"
           THEN /\ posts' = [posts EXCEPT ![r] = PostAfterCheck(@, r, TRUE)]
                /\ ipc' = channel
           ELSE /\ posts' = [posts EXCEPT ![r] = PostAfterCheckThrows(@)]
                /\ ipc' = IF exits THEN "ended" ELSE channel
        /\ UNCHANGED <<redis, outsideRest>>

\* Redis answers the SET of setIdempotent.
PostSetSettles ==
    \E r \in 1..Len(posts), channel \in Channels :
        /\ posts[r].pc = "set"
        /\ ipc # "ended"
        /\ redis' = redis \cup {posts[r].key}
        /\ posts' = [posts EXCEPT ![r] = IF channel = "channel"
                                         THEN PostAfterSet(@, r)
                                         ELSE PostAfterSetThrows(@)]
        /\ ipc' = channel
        /\ UNCHANGED outsideRest

\* createNewData settles in the DatabaseInteractionWorker.
PostDbSettles ==
    \E r \in 1..Len(posts) :
        \E result \in DbResults("createNewData") :
            /\ posts[r].pc = "await"
            /\ posts[r].op = "started"
            /\ posts' = [posts EXCEPT ![r] = PostAfterDb(@, r, result)]
            /\ UNCHANGED <<redis, ipc, outsideRest>>

\* The reply with the request's messageId reaches onProcessedMessage.
PostReplyArrives ==
    \E r \in 1..Len(posts) :
        /\ posts[r].pc = "await"
        /\ posts[r].op = "replied"
        /\ ipc # "ended"
        /\ posts' = [posts EXCEPT ![r] = PostAfterReply(@)]
        /\ UNCHANGED <<redis, ipc, outsideRest>>

\* Redis executes the DEL of removeIdempotent.
PostDelApplies ==
    \E r \in 1..Len(posts) :
        /\ posts[r].pc = "del"
        /\ redis' = redis \ {posts[r].key}
        /\ posts' = [posts EXCEPT ![r].pc = "done"]
        /\ UNCHANGED <<ipc, outsideRest>>

NextRest ==
    \/ PostArrives
    \/ PostAuthSettles
    \/ PostCheckSettles
    \/ PostSetSettles
    \/ PostDbSettles
    \/ PostReplyArrives
    \/ PostDelApplies

\* ============================================ RestApiWorker.listenTask
\* One RestApiWorker process: the requests it has sent to other workers and
\* the envelopes the supervisor hands it.
RestOnProcessed == <<"RestApiWorker", "onProcessedMessage">>

\* An entry naming a method RestApiWorker does not have.
RestNoMethod == <<"RestApiWorker", "produceMessage">>

\* The members this[path] finds on a RestApiWorker.
RestMethods ==
    {"run", "healthCheck", "listenTask", "onProcessedMessage", "getuserId",
     "sendMessageToOtherWorker", "getData", "getDataById", "postData",
     "getInstanceId"}

\* The data of a reply: null, or the rows of the database.
FeData == {Null, "rows"}

FeDestinationLists ==
    {<<RestOnProcessed>>, <<RestOnProcessed, RestOnProcessed>>,
     <<DbGetAllData, RestOnProcessed, MqProduce>>, <<DbGetAllData, MqProduce>>,
     <<RestNoMethod, RestOnProcessed>>}

\* The envelopes the worker's "message" event brings.
FeEnvelopes ==
    {[messageId |-> id, status |-> "completed", reason |-> "",
      destination |-> d, data |-> v] :
        id \in 1..MaxCalls, d \in FeDestinationLists, v \in FeData}

NoFeMessage == [messageId |-> 0, status |-> "none", reason |-> "",
                destination |-> <<>>, data |-> Null]

\* The worker's fields threaded through one handler, with what it did:
\* the methods invoked and the envelopes given to sendMessagetoSupervisor.
Fe == [reqs |-> feReqs, invoked |-> <<>>, sent |-> <<>>, threw |-> FALSE]

\* The listener of sendMessageToOtherWorker without the messageId test: a
\* faulty variant, kept to show that the correlation depends on the test.
ListenerNoIdTest(req, emitted) ==
    IF req.result = Undefined
    THEN [req EXCEPT !.result =
             Some(IF emitted.data = Null THEN "{}" ELSE emitted.data)]
    ELSE req

\* The listener sendMessageToOtherWorker installs, run for one emitted
\* message: resolve() settles the promise the first time it is called.
Listener(req, emitted) ==
    IF emitted.messageId = req.messageId /\ req.result = Undefined
    THEN [req EXCEPT !.result =
             Some(IF emitted.data = Null THEN "{}" ELSE emitted.data)]
    ELSE req

\* onProcessedMessage: emit("message", ...) runs every listener in turn.
OnProcessedMessage(w, message) ==
    [w EXCEPT !.reqs = [k \in DOMAIN @ |->
        Listener(@[k], [messageId |-> message.messageId,
                        data |-> message.data])]]

\* this[path](message) for one filtered entry: a TypeError when the worker
\* has no such member.
FeInvoke(w, message, d) ==
    IF Len(d) < 2 \/ d[2] \notin RestMethods THEN [w EXCEPT !.threw = TRUE]
    ELSE [OnProcessedMessage(w, message) EXCEPT !.invoked = Append(@, d)]

RECURSIVE FeInvokeFrom(_, _, _, _)
FeInvokeFrom(w, message, dests, i) ==
    IF i > Len(dests) \/ w.threw THEN w
    ELSE FeInvokeFrom(FeInvoke(w, message, dests[i]), message, dests, i + 1)

\* The "message" handler of listenTask.
FeListenTask(w, message) ==
    FeInvokeFrom(w, message,
        SelectSeq(message.destination,
                  LAMBDA d : DestIncludes(d, "RestApiWorker")), 1)

NoFeLast == [kind |-> "init", message |-> NoFeMessage, invoked |-> <<>>,
             sent |-> <<>>, threw |-> FALSE]

InitFe ==
    /\ feReqs = <<>>
    /\ feIn = 0
    /\ feCrashed = FALSE
    /\ feLast = NoFeLast

\* A route handler calls sendMessageToOtherWorker: the request gets a
\* messageId of its own (uuidv4) and a listener.
FeSend ==
    /\ ~feCrashed
    /\ Len(feReqs) < MaxCalls
    /\ feReqs' = Append(feReqs, [messageId |-> Len(feReqs) + 1,
                                 result |-> Undefined])
    /\ feLast' = [NoFeLast EXCEPT !.kind = "send"]
    /\ UNCHANGED <<feIn, feCrashed, outsideFe>>

\* process.on("message"): an envelope arrives.  The handler is async: an
\* exception it throws is an unhandled rejection, which ends the process
\* or is only reported, as the runtime is set up.
FeReceive ==
    \E message \in FeEnvelopes, exits \in BOOLEAN :
        LET w == FeListenTask(Fe, message)
        IN  /\ ~feCrashed
            /\ feIn < MaxFeInbound
            /\ feIn' = feIn + 1
            /\ feReqs' = w.reqs
            /\ feCrashed' = (w.threw /\ exits)
            /\ feLast' = [kind |-> "receive", message |-> message,
                          invoked |-> w.invoked, sent |-> w.sent,
                          threw |-> w.threw]
            /\ UNCHANGED outsideFe

NextFe == FeSend \/ FeReceive

\* ========================================================== RequestCounter
\* The singleton of src/utils/RequestCounter.ts and the calls made on it.
ZeroStats == [total |-> 0, successful |-> 0, failed |-> 0]

IncrementTotal(stats) == [stats EXCEPT !.total = @ + 1]

\* incrementSuccessful counting the request as well: a faulty variant, kept
\* to show that the counters' independence depends on each increment
\* touching its own field only.
IncrementSuccessfulAndTotal(stats) ==
    [stats EXCEPT !.successful = @ + 1, !.total = @ + 1]

IncrementSuccessful(stats) == [stats EXCEPT !.successful = @ + 1]

IncrementFailed(stats) == [stats EXCEPT !.failed = @ + 1]

\* reset(): a new stats object.
Reset(stats) == ZeroStats

\* The resolvers of src/graphql/resolvers.ts; each calls incrementTotal on
\* entry and runs to its first await, and goes on when the await settles.
Resolvers ==
    {"__resolveReference", "getAllProjects", "getProjectById", "createProject"}

\* The resolvers that test context.authorization and await getuserId.
Authorizing == {"getAllProjects", "createProject"}

NoResolverCalls ==
    [open |-> [r \in Resolvers |-> 0], resolver |-> "", input |-> ""]

\* One call of an increment, by the name of its counter.
ApplyCall(stats, call) ==
    CASE call = "total" -> IncrementTotal(stats)
      [] call = "successful" -> IncrementSuccessful(stats)
      [] call = "failed" -> IncrementFailed(stats)

RECURSIVE ApplyCalls(_, _)
ApplyCalls(stats, calls) ==
    IF calls = <<>> THEN stats
    ELSE ApplyCalls(ApplyCall(stats, Head(calls)), Tail(calls))

\* The increments a resolver calls from its entry to its first await: a
\* missing authorization is counted at the test and, the Error being thrown
\* inside the try, once more in the catch.
ResolverEntry(resolver, authorized) ==
    IF resolver \in Authorizing /\ ~authorized
    THEN <<"total", "failed", "failed">>
    ELSE <<"total">>

\* What the awaits of a resolver can come to: getuserId rejects, the reply
\* carries no data, or it carries data.
Outcomes(resolver) ==
    IF resolver \in Authorizing THEN {"rejected", "empty", "data"}
    ELSE {"empty", "data"}

\* The increments a resolver calls once its awaits have settled.
ResolverSettled(resolver, outcome) ==
    CASE outcome = "rejected" -> <<"failed">>
      [] outcome = "data" -> <<"successful">>
      [] outcome = "empty" /\ resolver = "__resolveReference" -> <<"failed">>
      [] outcome = "empty" /\ resolver = "getAllProjects" -> <<"successful">>
      [] OTHER -> <<"failed", "failed">>

\* The calls of one increment in a sequence of calls.
CallsOf(calls, name) ==
    Cardinality({i \in 1..Len(calls) : calls[i] = name})

Counted(calls) ==
    [name \in DOMAIN rcCalls |-> rcCalls[name] + CallsOf(calls, name)]

InitRc ==
    /\ rcStats = ZeroStats
    /\ rcCalls = ZeroStats
    /\ gql = NoResolverCalls

RcIncrementTotal ==
    /\ rcCalls.total < MaxCount
    /\ rcStats' = IncrementTotal(rcStats)
    /\ rcCalls' = [rcCalls EXCEPT !.total = @ + 1]
    /\ UNCHANGED <<gql, outsideRc>>

RcIncrementSuccessful ==
    /\ rcCalls.successful < MaxCount
    /\ rcStats' = IncrementSuccessful(rcStats)
    /\ rcCalls' = [rcCalls EXCEPT !.successful = @ + 1]
    /\ UNCHANGED <<gql, outsideRc>>

RcIncrementFailed ==
    /\ rcCalls.failed < MaxCount
    /\ rcStats' = IncrementFailed(rcStats)
    /\ rcCalls' = [rcCalls EXCEPT !.failed = @ + 1]
    /\ UNCHANGED <<gql, outsideRc>>

RcReset ==
    /\ rcStats' = Reset(rcStats)
    /\ rcCalls' = ZeroStats
    /\ UNCHANGED <<gql, outsideRc>>

NextRc ==
    \/ RcIncrementTotal
    \/ RcIncrementSuccessful
    \/ RcIncrementFailed
    \/ RcReset

\* ================================================ supervisor with watchdog
\* The supervisor variant with workersHealth and checkWorkerHealth.  Time is
\* counted in half seconds, so that the rounding of Date.now() to whole
\* seconds shows.  A worker whose interval is installed emits its heartbeat
\* exactly every 10 s and the envelope is handled at once; no other envelope
\* arrives, so the pending table stays empty and the drain that ends
\* createWorker sends nothing.
TicksPerSecond == 2

IntervalSeconds == 10        \* setInterval(..., 10000), supervisor and workers

HealthThreshold == 10        \* const healthThreshold = 10

Period == IntervalSeconds * TicksPerSecond

\* Math.floor(Date.now() / 1000)
WdNow(ticks) == ticks \div TicksPerSecond

WdProc(type, born, replaces) ==
    [type |-> type, born |-> born, started |-> FALSE, next |-> 0,
     exited |-> FALSE, killed |-> FALSE, replaces |-> replaces]

NoWdLast == [kind |-> "init", restarted |-> {}, registered |-> {}]

\* createWorker({worker, ...workerConfig[worker]}): `count` processes are
\* spawned and pushed; with an undefined count the loop body never runs.
RECURSIVE WdCreateWorker(_, _, _, _)
WdCreateWorker(w, worker, count, cause) ==
    IF count = Undefined \/ count[1] <= 0 THEN w
    ELSE WdCreateWorker(
             [w EXCEPT
                 !.procs = @ @@ (w.nextPid :> WdProc(worker, w.clock, cause)),
                 !.workers = Append(@, w.nextPid),
                 !.nextPid = @ + 1],
             worker, Some(count[1] - 1), cause)

\* The entries of workersHealth that checkWorkerHealth acts on.
Stale(w) ==
    {pid \in DOMAIN w.health :
        /\ w.health[pid].isHealthy
        /\ WdNow(w.clock) - w.health[pid].t > HealthThreshold}

\* The body of checkWorkerHealth's loop for one stale entry: kill the
\* registered process, create the replacement under the name taken from the
\* instanceId, delete the entry, drop the pid from the registry.
WdRestart(w, pid) ==
    LET workerName == w.health[pid].workerNameId[1]
        w1 == IF pid \in SeqToSet(w.workers)
              THEN [w EXCEPT !.procs[pid].killed = TRUE]
              ELSE w
        w2 == WdCreateWorker(w1, workerName, WorkerConfigOf(workerName).count,
                             pid)
    IN  [w2 EXCEPT
            !.health = [q \in DOMAIN w2.health \ {pid} |-> w2.health[q]],
            !.workers = SelectSeq(@, LAMBDA q : q # pid)]

\* Object.entries lists integer keys in ascending order.
RECURSIVE WdRestartAll(_, _)
WdRestartAll(w, pids) ==
    IF pids = {} THEN w
    ELSE LET pid == CHOOSE q \in pids : \A r \in pids : q <= r
         IN  WdRestartAll(WdRestart(w, pid), pids \ {pid})

CheckWorkerHealth(w) ==
    [WdRestartAll(w, Stale(w)) EXCEPT
        !.nextCheck = @ + Period,
        !.last = [kind |-> "check", restarted |-> Stale(w),
                  registered |-> Stale(w) \cap SeqToSet(w.workers)]]

\* handleWorkerMessage for a heartbeat: destination ["supervisor"], status
\* "healthy".
WdHealthy(w, pid, beat) ==
    [w EXCEPT
        !.health = [q \in DOMAIN w.health \cup {pid} |->
                       IF q = pid
                       THEN [isHealthy |-> TRUE,
                             workerNameId |-> beat.instanceId,
                             t |-> WdNow(w.clock)]
                       ELSE w.health[q]],
        !.last = [kind |-> "healthy", restarted |-> {}, registered |-> {}]]

\* Whether a process is running.
WdAlive(p) == ~p.exited /\ ~p.killed

\* The pids spawned so far.
WdPids == 1..(wd.nextPid - 1)

InitWd ==
    wd = [clock |-> 0, nextCheck |-> Period, workers |-> <<1, 2, 3>>,
          procs |-> (1 :> WdProc("RestApiWorker", 0, 0)
                     @@ 2 :> WdProc("DatabaseInteractionWorker", 0, 0)
                     @@ 3 :> WdProc("RabbitMQWorker", 0, 0)),
          health |-> [q \in {} |-> 0], nextPid |-> 4, exits |-> 0,
          last |-> NoWdLast]

\* A spawned process reaches the end of run(): its interval is installed or
\* not, as for the worker types above.
WdStart ==
    \E pid \in WdPids, connected \in BOOLEAN :
        /\ WdAlive(wd.procs[pid])
        /\ ~wd.procs[pid].started
        /\ wd' = [wd EXCEPT
                     !.procs[pid].started = TRUE,
                     !.procs[pid].next =
                         IF InstallsInterval(wd.procs[pid].type, connected)
                         THEN wd.clock + Period ELSE 0,
                     !.last = [NoWdLast EXCEPT !.kind = "start"]]
        /\ UNCHANGED outsideWd

\* A worker's interval fires and the supervisor handles the envelope.
WdHeartbeat ==
    \E pid \in WdPids :
        /\ WdAlive(wd.procs[pid])
        /\ wd.procs[pid].next = wd.clock
        /\ wd.procs[pid].next # 0
        /\ wd' = [WdHealthy(wd, pid, HealthBeat(wd.procs[pid].type))
                     EXCEPT !.procs[pid].next = @ + Period]
        /\ UNCHANGED outsideWd

\* The supervisor's interval fires.
WdCheck ==
    /\ wd.nextCheck = wd.clock
    /\ wd.nextPid + Cardinality(Stale(wd)) <= MaxWdPid + 1
    /\ wd' = CheckWorkerHealth(wd)
    /\ UNCHANGED outsideWd

\* A worker process ends, on its own or because it was killed, and the exit
\* listener drops it from the registry.  A process ends on its own only
\* while enough time is left to see what follows.
WdExit ==
    \E pid \in WdPids :
        /\ ~wd.procs[pid].exited
        /\ \/ wd.procs[pid].killed
           \/ wd.exits < MaxExits /\ wd.clock + 2 * Period + 4 <= MaxTime
        /\ wd' = [wd EXCEPT
                     !.procs[pid].exited = TRUE,
                     !.workers = SelectSeq(@, LAMBDA q : q # pid),
                     !.exits = IF wd.procs[pid].killed THEN @ ELSE @ + 1,
                     !.last = [NoWdLast EXCEPT !.kind = "exit"]]
        /\ UNCHANGED outsideWd

\* Half a second passes, once everything that is due has happened.
WdTick ==
    /\ wd.clock < MaxTime
    /\ wd.nextCheck > wd.clock
    /\ \A pid \in WdPids :
           WdAlive(wd.procs[pid]) =>
               /\ wd.procs[pid].started =>
                      wd.procs[pid].next = 0 \/ wd.procs[pid].next > wd.clock
               /\ ~wd.procs[pid].started =>
                      wd.clock < wd.procs[pid].born + MaxStart
    /\ wd' = [wd EXCEPT !.clock = @ + 1,
                        !.last = [NoWdLast EXCEPT !.kind = "tick"]]
    /\ UNCHANGED outsideWd

NextWd == WdStart \/ WdHeartbeat \/ WdCheck \/ WdExit \/ WdTick

\* A resolver is called and runs to its first await.
GqlCalled ==
    \E resolver \in Resolvers, authorized \in BOOLEAN :
        LET calls == ResolverEntry(resolver, authorized)
            goesOn == calls = <<"total">>
        IN  /\ rcCalls.total < MaxCount
            /\ rcStats' = ApplyCalls(rcStats, calls)
            /\ rcCalls' = Counted(calls)
            /\ gql' = [gql EXCEPT
                          !.open[resolver] = IF goesOn THEN @ + 1 ELSE @,
                          !.resolver = resolver,
                          !.input = IF resolver \notin Authorizing THEN "any"
                                    ELSE IF authorized THEN "authorization"
                                    ELSE "no authorization"]
            /\ UNCHANGED outsideRc

\* The awaits of a resolver call in flight settle.
GqlSettles ==
    \E resolver \in Resolvers :
        \E outcome \in Outcomes(resolver) :
            LET calls == ResolverSettled(resolver, outcome)
            IN  /\ gql.open[resolver] > 0
                /\ rcStats' = ApplyCalls(rcStats, calls)
                /\ rcCalls' = Counted(calls)
                /\ gql' = [gql EXCEPT !.open[resolver] = @ - 1,
                                      !.resolver = resolver,
                                      !.input = outcome]
                /\ UNCHANGED outsideRc

NextGql == GqlCalled \/ GqlSettles

\* The state the constructor leaves: one worker of each of three types.
Init ==
    /\ workers = <<1, 2, 3>>
    /\ procs = (1 :> NewProc("RestAPIWorker", "ctor", 0)
                @@ 2 :> NewProc("DatabaseInteractionWorker", "ctor", 0)
                @@ 3 :> NewProc("RabbitMQWorker", "ctor", 0))
    /\ pendingMessages = [n \in WorkerNames |-> <<>>]
    /\ nextPid = 4
    /\ timers = <<>>
    /\ inbound = 0
    /\ sentTo = {}
    /\ last = NoLast
    /\ clock = 1
    /\ stamp = [k \in WorkerNames \X MsgIds |-> 0]
    /\ InitDb
    /\ InitHb
    /\ InitRest
    /\ InitFe
    /\ InitRc
    /\ InitWd

Next == WorkerMessage \/ WorkerExit \/ TimerFires

Spec == Init /\ [][Next]_vars

\* The pending table on its own: trackPendingMessage, removePendingMessage
\* and resendPendingMessages called in any order, for the worker types of
\* the constructor.  An entry pushed gets the next timestamp.
PendingEnvelope(name, id) ==
    [messageId |-> id, status |-> "completed", reason |-> "",
     destination |-> <<<<name, "getDataById">>>>]

TableCall(kind, name, message, sends) ==
    /\ last' = [NoLast EXCEPT !.kind = kind, !.message = message,
                              !.sends = sends,
                              !.call = [worker |-> name, count |-> Undefined]]
    /\ sentTo' = sentTo \cup
           {<<sends[i].to, sends[i].msg.messageId>> : i \in 1..Len(sends)}
    /\ UNCHANGED <<workers, procs, nextPid, timers, inbound, outsideSup>>

TrackCall ==
    \E name \in CallWorkers, id \in MsgIds :
        LET message == PendingEnvelope(name, id)
            pushed == ~HasId(pendingMessages[name], id)
        IN  /\ clock <= MaxTracks
            /\ pendingMessages' =
                   TrackPendingMessage(pendingMessages, name, message)
            /\ stamp' = IF pushed THEN [stamp EXCEPT ![<<name, id>>] = clock]
                        ELSE stamp
            /\ clock' = IF pushed THEN clock + 1 ELSE clock
            /\ TableCall("track", name, message, <<>>)

RemoveCall ==
    \E name \in CallWorkers, id \in MsgIds :
        /\ pendingMessages' = RemovePendingMessage(pendingMessages, name, id)
        /\ UNCHANGED <<clock, stamp>>
        /\ TableCall("remove", name, PendingEnvelope(name, id), <<>>)

ResendCall ==
    \E name \in CallWorkers :
        /\ UNCHANGED <<pendingMessages, clock, stamp>>
        /\ TableCall("drain", name, NoMessage,
                     ResendPendingMessages(Sup({}, "S"), name).sends)

NextPending == TrackCall \/ RemoveCall \/ ResendCall

SpecPending == Init /\ [][NextPending]_vars

\* One DatabaseInteractionWorker, fed by the supervisor.
SpecDb == Init /\ [][NextDb]_vars

\* The worker processes from their start, with their health checks.
SpecHb == Init /\ [][NextHb]_vars

\* One RestApiWorker and the envelopes it sends and receives.
SpecFe == Init /\ [][NextFe]_vars

\* The RequestCounter under any sequence of calls.
SpecRc == Init /\ [][NextRc]_vars

\* One RestApiWorker serving POST /, with Redis.
SpecRest == Init /\ [][NextRest]_vars

\* Whatever a request awaits settles: Redis and the token service answer,
\* the database operation ends, a reply that was sent is delivered.
SpecRestLive ==
    /\ SpecRest
    /\ WF_vars(PostAuthSettles)
    /\ WF_vars(PostCheckSettles)
    /\ WF_vars(PostSetSettles)
    /\ WF_vars(PostDbSettles)
    /\ WF_vars(PostReplyArrives)
    /\ WF_vars(PostDelApplies)

\* Node runs the callback of a timer that is due: a pending back-off
\* re-entry is not postponed forever.
SpecLive == Spec /\ WF_vars(TimerFires)

\* The supervisor on a host where the ps command can fail.
NextPs == Next \/ WorkerMessagePsFails

SpecPs == Init /\ [][NextPs]_vars

\* The supervisor with createWorker also called from outside.
NextApi == Next \/ CreateWorkerCall

SpecApi == Init /\ [][NextApi]_vars

\* The RequestCounter of a GraphQLWorker under its resolvers.
SpecGql == Init /\ [][NextGql]_vars

\* The supervisor with watchdog.
SpecWd == Init /\ [][NextWd]_vars

\* The same, where time passes and nothing that is due is put off.
SpecWdLive ==
    SpecWd /\ WF_vars(WdTick) /\ WF_vars(WdCheck) /\ WF_vars(WdHeartbeat)
           /\ WF_vars(WdStart)

\* ================================================================== claims
LastSends == {last.sends[i] : i \in 1..Len(last.sends)}

\* How many sends of the last handler took messageId `id` to worker `pid`.
SendCount(pid, id) ==
    Cardinality({i \in 1..Len(last.sends) :
        last.sends[i].to = pid /\ last.sends[i].msg.messageId = id})

\* C1: once the router has processed a reply {same messageId, completed,
\* ["supervisor"]} from a worker W to which it had sent the envelope, the
\* pending list of W's type holds no entry with that messageId.
C1_RoundTripAck ==
    (/\ last.kind = "message"
     /\ last.message.status = "completed"
     /\ last.message.destination = <<SUPERVISOR>>
     /\ <<last.pid, last.message.messageId>> \in sentTo)
    => ~HasId(pendingMessages[procs[last.pid].type], last.message.messageId)

\* C2: when a replacement W' is registered for a worker W that exited or was
\* restarted, every envelope that had been sent to W and is still pending
\* for the type is sent to W' exactly once.
C2_ReplayExactlyOnce ==
    \A q \in last.spawned :
        LET w == procs[q].replaces
        IN  w # 0 =>
                \A id \in MsgIds :
                    (/\ HasId(pendingMessages[procs[w].type], id)
                     /\ <<w, id>> \in sentTo)
                    => SendCount(q, id) = 1

\* C3: the pending table never holds two entries with the same messageId
\* under one worker name, and tracking an envelope whose messageId is already
\* present leaves the table as it is.
C3_PendingDedup ==
    /\ \A n \in WorkerNames :
           \A i, j \in 1..Len(pendingMessages[n]) :
               pendingMessages[n][i].messageId = pendingMessages[n][j].messageId
                   => i = j
    /\ \A n \in WorkerNames, e \in Envelopes :
           HasId(pendingMessages[n], e.messageId)
               => TrackPendingMessage(pendingMessages, n, e) = pendingMessages

\* C3 witness: an envelope was routed whose messageId was already tracked
\* with another envelope, and the first one is what the table holds.
C3_Witness ==
    /\ last.kind = "message"
    /\ last.message.destination = <<DbGetDataById>>
    /\ \E i \in 1..Len(pendingMessages["DatabaseInteractionWorker"]) :
           LET m == pendingMessages["DatabaseInteractionWorker"][i]
           IN  /\ m.messageId = last.message.messageId
               /\ m.status # last.message.status

\* C4: while the router handles a failed/SERVER_BUSY envelope sent by worker
\* P, no send of that routing step goes to P (the first part of the claim;
\* the rest tells where the envelope goes instead).
C4_BackPressure ==
    (last.kind = "message" /\ IsServerBusy(last.message))
        => \A snd \in LastSends : snd.to # last.pid

\* C5: no send, by the router or by a drain, goes to a worker whose exitCode
\* is set or whose killed flag is true.
C5_NoRevival ==
    \A snd \in LastSends : ~snd.killed /\ snd.exitCode = Null

\* C5 witness: a handler sent an envelope while a killed worker of the
\* addressed type stood before the target in the registry.
C5_Witness ==
    \E snd \in LastSends :
        \E i, j \in 1..Len(snd.registry) :
            /\ i < j
            /\ snd.registry[j] = snd.to
            /\ procs[snd.registry[i]].killed
            /\ procs[snd.registry[i]].type = procs[snd.to].type

\* C6: while handling one inbound envelope the router calls createWorker for
\* a type that has no eligible worker at most once.
C6_SpawnOnAbsenceOnce ==
    last.kind \in {"message", "timer"} =>
        \A n \in WorkerNames :
            Cardinality({i \in 1..Len(last.creates) :
                last.creates[i].worker = n /\ last.creates[i].cause = 0}) <= 1

\* C7: once the exit of a child killed by restartWorker has been processed,
\* the child is out of the registry and exactly one replacement of its type
\* has been added.
C7_RestartLikeExit ==
    \A pid \in DOMAIN procs :
        (procs[pid].killed /\ procs[pid].exited) =>
            /\ pid \notin SeqToSet(workers)
            /\ Cardinality({q \in DOMAIN procs :
                   procs[q].replaces = pid /\ procs[q].type = procs[pid].type}) = 1

\* C8: the exit handler of a worker of type T removes it from the registry,
\* calls createWorker once for one worker of type T with the same config,
\* and the pending envelopes of T are sent, in order, only once the
\* replacement is registered, to an alive worker of type T.
C8_ExitHandler ==
    last.kind = "exit" =>
        LET w == last.pid
            T == procs[w].type
        IN  /\ w \notin SeqToSet(workers)
            /\ last.creates = <<[worker |-> T, count |-> Some(1), cause |-> w]>>
            /\ Cardinality(last.spawned) = 1
            /\ \A q \in last.spawned :
                   /\ q \in SeqToSet(workers)
                   /\ procs[q].type = T
                   /\ procs[q].config = procs[w].config
                   /\ \A snd \in LastSends :
                          /\ q \in SeqToSet(snd.registry)
                          /\ w \notin SeqToSet(snd.registry)
                          /\ procs[snd.to].type = T
                          /\ ~snd.killed /\ snd.exitCode = Null
            /\ [i \in 1..Len(last.sends) |-> last.sends[i].msg] = pendingMessages[T]

\* C8 witness: an exit was handled while envelopes were pending for the type.
C8_Witness ==
    /\ last.kind = "exit"
    /\ Len(last.sends) >= 2

\* C9: after the completed reply for M of the replacement of an exited
\* DatabaseInteractionWorker has been routed, M having been sent to both,
\* M is not in the pending list of DatabaseInteractionWorker.
C9_CrashReplay ==
    (/\ last.kind = "message"
     /\ last.message.status = "completed"
     /\ last.message.destination \in DbReplyDestinations
     /\ procs[last.pid].type = "DatabaseInteractionWorker"
     /\ procs[last.pid].replaces # 0
     /\ procs[procs[last.pid].replaces].exited
     /\ ~procs[procs[last.pid].replaces].killed
     /\ <<procs[last.pid].replaces, last.message.messageId>> \in sentTo
     /\ <<last.pid, last.message.messageId>> \in sentTo)
    => ~HasId(pendingMessages["DatabaseInteractionWorker"], last.message.messageId)

\* C10: no envelope with status error is sent to a worker, by the router or
\* by a drain of the pending table.
C10_ErrorNeverSent ==
    \A snd \in LastSends : snd.msg.status # "error"

\* C11: once the router has handled an envelope {status error, destination
\* ["supervisor"]} of a registered, running worker, that worker has been
\* restarted: it was killed and a replacement of its type was created for it.
C11_ErrorToSupervisorRestarts ==
    (/\ last.kind = "message"
     /\ last.message.status = "error"
     /\ last.message.destination = <<SUPERVISOR>>
     /\ ~procs[last.pid].exited
     /\ last.pid \in SeqToSet(workers))
    => /\ procs[last.pid].killed
       /\ \E i \in 1..Len(last.creates) :
              /\ last.creates[i].worker = procs[last.pid].type
              /\ last.creates[i].cause = last.pid

\* C12: while one inbound envelope with the peer entries d1..dn is handled,
\* the router makes exactly n forwarding decisions, the i-th for di, and the
\* envelope of the i-th decision has the destination list <<di>>.
C12_FanOut ==
    last.kind = "message" =>
        LET peers == PeerEntries(last.message.destination)
        IN  /\ Len(last.decisions) = Len(peers)
            /\ \A i \in 1..Len(last.decisions) :
                   i <= Len(peers) =>
                       /\ last.decisions[i].dest = peers[i]
                       /\ last.decisions[i].message.destination = <<peers[i]>>

\* C13: a call of createWorker with count <= 0 throws, spawns no process,
\* sends nothing, and leaves the registry and the pending table as they were.
C13_CreateWorkerRejects ==
    [][(/\ last'.kind = "create"
        /\ last'.call.count[1] <= 0)
       => /\ last'.threw
          /\ last'.spawned = {}
          /\ last'.sends = <<>>
          /\ UNCHANGED <<workers, procs, nextPid, pendingMessages>>]_vars

\* C13 witness: createWorker was called with a count <= 0 for a type that
\* had pending envelopes and an alive worker to drain them to.
C13_Witness ==
    /\ last.kind = "create"
    /\ last.call.count[1] <= 0
    /\ last.threw
    /\ pendingMessages[last.call.worker] # <<>>
    /\ \E pid \in SeqToSet(workers) :
           procs[pid].type = last.call.worker /\ IsWorkerAlive(procs[pid])

\* A back-off re-entry for messageId `id` is scheduled.
BackedOff(id) == \E i \in 1..Len(timers) : timers[i].message.messageId = id

\* The last handler was the re-entry of `id`, routed with status completed,
\* and it sent the envelope to a worker of the addressed type.
ReentrySent(id) ==
    /\ last.kind = "timer"
    /\ last.message.messageId = id
    /\ last.message.status = "completed"
    /\ \E snd \in LastSends :
           /\ snd.msg.messageId = id
           /\ Includes(procs[snd.to].type,
                       WorkerNameOf(last.message.destination[1]))

\* C14: an envelope that was backed off (SERVER_BUSY, no candidate but the
\* sender) is routed again with the same messageId and status completed, and
\* is then sent to a worker of the addressed type.
C14_BackOffLiveness == \A id \in MsgIds : BackedOff(id) ~> ReentrySent(id)

\* C14 witness: the re-entry of a backed-off envelope was sent to a worker.
C14_Witness == \E id \in MsgIds : ReentrySent(id)

\* C15: a drain of the pending list of a type sends every entry of the list,
\* in the order in which the entries were pushed (by their timestamps), after
\* any sequence of track and remove calls.
C15_ReplayOrder ==
    last.kind = "drain" =>
        LET name == last.call.worker
        IN  /\ [i \in 1..Len(last.sends) |-> last.sends[i].msg]
                   = pendingMessages[name]
            /\ \A i, j \in 1..Len(last.sends) :
                   i < j => stamp[<<name, last.sends[i].msg.messageId>>]
                                < stamp[<<name, last.sends[j].msg.messageId>>]

\* C15 witness: a drain sent two envelopes of which the first-sent has the
\* larger messageId, its earlier entry having been removed and pushed again.
C15_Witness ==
    /\ last.kind = "drain"
    /\ Len(last.sends) = 2
    /\ last.sends[1].msg.messageId > last.sends[2].msg.messageId
    /\ clock > 3

\* C16: an envelope received while isBusy is true starts no database
\* operation, and the worker replies to the supervisor with one envelope:
\* status failed, reason SERVER_BUSY, the messageId (and the destination) of
\* the envelope received.
C16_BusyReply ==
    [][(dbLast'.kind = "receive" /\ isBusy)
       => /\ dbOps' = dbOps
          /\ dbLast'.started = 0
          /\ dbLast'.sent =
                 <<[dbLast'.message EXCEPT !.status = "failed",
                                           !.reason = "SERVER_BUSY"]>>]_vars

\* C16 witness: a busy worker that still awaits an operation answered an
\* envelope with SERVER_BUSY.
C16_Witness ==
    /\ dbLast.kind = "receive"
    /\ dbLast.wasBusy
    /\ dbOps # <<>>
    /\ Len(dbLast.sent) = 1
    /\ dbLast.sent[1].reason = "SERVER_BUSY"

\* C17: a started worker process of any of the four types has emitted one
\* envelope {status healthy, destination ["supervisor"]} carrying its
\* instanceId for each period of 10 s it has run.
C17_Heartbeat ==
    \A type \in WorkerTypes :
        hb[type].started =>
            /\ hb[type].emitted = hb[type].age
            /\ hb[type].age > 0 =>
                   /\ hb[type].beat.env.status = "healthy"
                   /\ hb[type].beat.env.destination = <<SUPERVISOR>>
                   /\ hb[type].beat.instanceId = InstanceId(type)

\* The request sent an envelope for DatabaseInteractionWorker/createNewData.
SentCreate(req) ==
    \E i \in 1..Len(req.sent) : req.sent[i].destination = <<DbCreateNewData>>

\* C18: a POST / with a valid token and the idempotent-key of an earlier
\* POST that was answered 201 before it arrived is answered 208 'Operation
\* already processed' and emits no createNewData envelope.
C18_DuplicateReplay ==
    \A r \in 1..Len(posts) :
        (posts[r].afterCreated /\ posts[r].auth) =>
            /\ ~SentCreate(posts[r])
            /\ posts[r].status # 0 =>
                   /\ posts[r].status = 208
                   /\ posts[r].text = "Operation already processed"

\* What the missing-key answer is: 400 with the error text, no envelope
\* emitted and no idempotency key set by the request.
MissingKeyAnswer(req) ==
    /\ req.sent = <<>>
    /\ ~req.keySet
    /\ req.pc \in {"auth", "done"}
    /\ req.pc = "done" =>
           /\ req.status = 400
           /\ req.text = "Idempotent key required"

\* C19 as stated: every POST / without an idempotent-key header is answered
\* 400 {error: 'Idempotent key required'}, emits no envelope and sets no key.
C19_MissingKey ==
    \A r \in 1..Len(posts) :
        posts[r].key = NoKey => MissingKeyAnswer(posts[r])

\* C19 amended: a POST / whose authorization token is valid and that has no
\* idempotent-key header is answered 400 {error: 'Idempotent key required'},
\* emits no envelope and sets no key.
C19_MissingKeyAuthorized ==
    \A r \in 1..Len(posts) :
        (posts[r].key = NoKey /\ posts[r].auth) => MissingKeyAnswer(posts[r])

\* C19 witness: an authorized POST without the header was answered 400
\* while another request held its key in Redis.
C19_Witness ==
    /\ redis # {}
    /\ \E r \in 1..Len(posts) :
           /\ posts[r].key = NoKey
           /\ posts[r].auth
           /\ posts[r].status = 400

\* The destination entry is the onProcessedMessage callback of `type`.
CallbackOf(d, type) ==
    Len(d) >= 2 /\ d[1] = type /\ d[2] = "onProcessedMessage"

\* C20: every completed reply the DatabaseInteractionWorker emits for a
\* request with a destination of the method's choice is destined to the
\* onProcessedMessage of the front-end type that sent the request, and to
\* no other front-end type.
C20_ReplyToOrigin ==
    \A snd \in dbSent :
        (/\ snd.env.status = "completed"
         /\ snd.env.destination # <<SUPERVISOR>>) =>
            LET destination == snd.env.destination
            IN  /\ \E j \in 1..Len(destination) :
                       CallbackOf(destination[j], snd.origin)
                /\ \A j \in 1..Len(destination) :
                       WorkerNameOf(destination[j]) \notin
                           FrontEnds \ {snd.origin}

\* C21: a POST / whose database operation has failed (createNewData threw
\* or returned nothing) is eventually answered 500; it is not left pending.
C21_FailureAnswered ==
    \A r \in 1..MaxPosts :
        (r <= Len(posts) /\ posts[r].op = "lost")
            ~> (r <= Len(posts) /\ posts[r].status = 500)

\* Whether list a is the beginning of list b.
IsPrefix(a, b) == Len(a) <= Len(b) /\ SubSeq(b, 1, Len(a)) = a

\* C22: a handler that only spawns and drains (a worker's exit, a direct
\* createWorker) leaves every pending list as it is; the handling of an error
\* envelope (restartWorker) removes no entry; and a drain sends only when an
\* alive worker of the type is registered, to that worker.
C22_DrainFrame ==
    [][/\ last'.kind \in {"exit", "create"}
              => pendingMessages' = pendingMessages
       /\ (last'.kind \in {"message", "timer"}
               /\ last'.message.status = "error")
              => \A n \in WorkerNames :
                     IsPrefix(pendingMessages[n], pendingMessages'[n])
       /\ \A i \in 1..Len(last'.sends) :
              last'.sends[i].via = "drain"
                  => /\ last'.sends[i].to \in SeqToSet(last'.sends[i].registry)
                     /\ last'.sends[i].exitCode = Null
                     /\ ~last'.sends[i].killed]_vars

\* C22 witness: the exit handler has drained a pending list that holds an
\* entry, to the replacement it spawned, and the entry is still there.
C22_Witness ==
    /\ last.kind = "exit"
    /\ \E i \in 1..Len(last.sends) :
           /\ last.sends[i].via = "drain"
           /\ HasId(pendingMessages[procs[last.sends[i].to].type],
                    last.sends[i].msg.messageId)

\* C23: whenever the router sends an envelope to a worker, from the routing
\* flow or from a drain, the pending list
\* of that worker's type holds an entry with the envelope's messageId at the
\* moment of the send.
C23_TrackBeforeSend ==
    \A send \in LastSends : send.tracked

\* C23 witness: the routing of an inbound envelope has sent it to a worker.
C23_Witness ==
    /\ last.kind = "message"
    /\ \E send \in LastSends :
           /\ send.via = "route"
           /\ send.msg.messageId = last.message.messageId
           /\ send.tracked

\* C24: when the ps command fails for a registered worker while an envelope
\* with a peer destination is handled, the handler does not throw, makes its
\* forwarding decision, and the envelope is in the pending list of every
\* type it names.
C24_PsFailureTolerated ==
    (last.kind = "message" /\ last.failing # {})
        => /\ ~last.threw
           /\ Len(last.decisions) >= 1
           /\ \A i \in 1..Len(last.message.destination) :
                  last.message.destination[i] # SUPERVISOR
                      => HasId(pendingMessages[
                                   WorkerNameOf(last.message.destination[i])],
                               last.message.messageId)

\* Whether the last handler, having called createWorker for type T because
\* it found no candidate, left its envelope in the pending list of T and
\* sent it to a worker of type T in a drain.
SpawnedThenDrained(T) ==
    /\ HasId(pendingMessages[T], last.message.messageId)
    /\ \E send \in LastSends :
           /\ send.via = "drain"
           /\ send.msg.messageId = last.message.messageId
           /\ procs[send.to].type = T

\* C25: when the routing of an envelope finds no candidate for a type T and
\* calls createWorker, the envelope is in the pending list of T and the
\* drain that follows the spawn sends it to a worker of type T, whatever T.
C25_SpawnThenDrain ==
    last.kind \in {"message", "timer"} =>
        \A i \in 1..Len(last.creates) :
            last.creates[i].cause = 0
                => SpawnedThenDrained(last.creates[i].worker)

\* C26: an envelope that reaches the DatabaseInteractionWorker while the
\* database operation of an earlier envelope is still awaited starts no
\* operation and is answered failed / SERVER_BUSY.
C26_SingleTask ==
    (dbLast.kind = "receive" /\ Len(dbOps) > dbLast.started)
        => /\ dbLast.started = 0
           /\ \E i \in 1..Len(dbLast.sent) :
                  /\ dbLast.sent[i].messageId = dbLast.message.messageId
                  /\ dbLast.sent[i].status = "failed"
                  /\ dbLast.sent[i].reason = "SERVER_BUSY"

\* C27: while an envelope M1 for a destination waits for its back-off
\* re-entry, the router sends no request M2 for the same destination that
\* it observes for the first time after M1: M1 is sent before M2.
C27_PerDestinationOrder ==
    [][\A i \in 1..Len(timers) :
           \A k \in 1..Len(last'.sends) :
               LET M1 == timers[i].message
                   M2 == last'.sends[k].msg
               IN  ~(/\ last'.kind = "message"
                     /\ last'.message.status = "completed"
                     /\ M2.destination = M1.destination
                     /\ M2.messageId # M1.messageId
                     /\ ~HasId(pendingMessages[WorkerNameOf(M1.destination[1])],
                               M2.messageId))]_vars

\* C28: for each envelope a RestApiWorker receives, the operations it
\* invokes are, in order, one for each destination entry whose first segment
\* is RestApiWorker and that names one of its methods, and no other.
C28_DestinationFilter ==
    feLast.kind = "receive" =>
        feLast.invoked =
            SelectSeq(feLast.message.destination, LAMBDA d :
                d[1] = "RestApiWorker" /\ d[2] \in RestMethods)

\* What sendMessageToOtherWorker resolves with for the data of a reply.
Resolved(data) == Some(IF data = Null THEN "{}" ELSE data)

\* C29: when a reply with messageId m reaches onProcessedMessage, the
\* request sent with messageId m, if it is still waiting, is resolved with
\* the reply's data ({} for null), and every other request is left as it is.
C29_ReplyCorrelation ==
    [][(feLast'.kind = "receive" /\ feLast'.invoked # <<>>)
          => \A k \in 1..Len(feReqs) :
                 IF /\ feReqs[k].messageId = feLast'.message.messageId
                    /\ feReqs[k].result = Undefined
                 THEN feReqs'[k].result = Resolved(feLast'.message.data)
                 ELSE feReqs'[k] = feReqs[k]]_vars

\* C29 witness: with two requests in flight, a reply has resolved the one
\* with its messageId and the other is still waiting.
C29_Witness ==
    /\ feLast.kind = "receive"
    /\ feLast.invoked # <<>>
    /\ Len(feReqs) = 2
    /\ \E k, j \in 1..2 :
           /\ feReqs[k].messageId = feLast.message.messageId
           /\ feReqs[k].result = Resolved(feLast.message.data)
           /\ feReqs[j].messageId # feLast.message.messageId
           /\ feReqs[j].result = Undefined

\* C30: an envelope with an entry for this worker that names a method the
\* worker does not have is answered with a reply of status failed; the
\* handler does not throw and the worker goes on serving.
C30_UnknownMethodFails ==
    (/\ feLast.kind = "receive"
     /\ \E i \in 1..Len(feLast.message.destination) :
            /\ feLast.message.destination[i][1] = "RestApiWorker"
            /\ feLast.message.destination[i][2] \notin RestMethods)
        => /\ ~feLast.threw
           /\ ~feCrashed
           /\ \E j \in 1..Len(feLast.sent) :
                  /\ feLast.sent[j].messageId = feLast.message.messageId
                  /\ feLast.sent[j].status = "failed"

\* C31: each counter of RequestCounter equals the number of calls of its own
\* increment since the last reset.
C31_CountersIndependent == rcStats = rcCalls

\* C31 witness: every increment has been called, a different number of
\* times each.
C31_Witness ==
    /\ rcStats.total = 3
    /\ rcStats.successful = 2
    /\ rcStats.failed = 1

\* C32: when a handler creates a worker of a type, the drain that follows
\* does not send to an alive worker W a request, other than the one being
\* handled, that had already been sent to W, unless W is the worker being
\* replaced.
C32_NoDuplicateDrain ==
    [][\A k \in 1..Len(last'.sends) :
           LET snd == last'.sends[k]
           IN  ~(/\ snd.via = "drain"
                 /\ snd.msg.status = "completed"
                 /\ last'.message.status \in {"completed", "none"}
                 /\ last'.spawned # {}
                 /\ <<snd.to, snd.msg.messageId>> \in sentTo
                 /\ snd.msg.messageId # last'.message.messageId
                 /\ snd.to # last'.pid
                 /\ IsWorkerAlive(procs'[snd.to]))]_vars

\* The registered workers of a type that are neither exited nor killed.
AliveOfType(type) ==
    {pid \in SeqToSet(workers) :
        procs[pid].type = type /\ IsWorkerAlive(procs[pid])}

\* C33: for every type of the static configuration, the registered workers
\* that are neither exited nor killed are never more than the declared count.
\* It is stated for the states that follow the routing of a fresh request
\* (status "completed"), the case in which the code breaks the bound.
C33_FleetBound ==
    (last.kind = "message" /\ last.message.status = "completed") =>
        \A type \in DOMAIN workerConfig :
            Cardinality(AliveOfType(type)) <= workerConfig[type].count[1]

\* The worker-type prefixes of the entries of a destination list.
PrefixesOf(destination) ==
    {WorkerNameOf(destination[i]) : i \in 1..Len(destination)}

\* C34: every send of a handler, by the router or by a drain, goes to a
\* process that was spawned for the type of one of the entries of the
\* envelope's destination list.
C34_TypeIsolation ==
    [][\A k \in 1..Len(last'.sends) :
           procs'[last'.sends[k].to].type
               \in PrefixesOf(last'.sends[k].msg.destination)]_vars

\* C34 witness: a drain and the router have both sent in one handler, and the
\* registry holds a live worker of a type that none of the sent envelopes is
\* addressed to.
C34_Witness ==
    /\ \E k \in 1..Len(last.sends) : last.sends[k].via = "drain"
    /\ \E k \in 1..Len(last.sends) : last.sends[k].via = "route"
    /\ \E pid \in SeqToSet(workers) :
           /\ IsWorkerAlive(procs[pid])
           /\ \A k \in 1..Len(last.sends) :
                  procs[pid].type
                      \notin PrefixesOf(last.sends[k].msg.destination)

\* C35: two POST / requests with the same idempotent-key are never both past
\* setIdempotent and waiting for the reply to their own createNewData
\* envelope.
C35_ConcurrentDuplicates ==
    \A r1, r2 \in 1..Len(posts) :
        (/\ r1 # r2
         /\ posts[r1].key = posts[r2].key
         /\ posts[r1].pc = "await"
         /\ posts[r2].pc = "await")
            => ~(SentCreate(posts[r1]) /\ SentCreate(posts[r2]))

\* C36: a POST / that arrives after the only earlier request with its
\* idempotent-key was answered 500 with the key set is not answered 208.
C36_KeyReleased ==
    \A r1, r2 \in 1..Len(posts) :
        (/\ r1 < r2
         /\ posts[r1].key = posts[r2].key
         /\ posts[r1].status = 500
         /\ posts[r1].keySet
         /\ posts[r2].afterFailed
         /\ \A r3 \in 1..Len(posts) :
                posts[r3].key = posts[r1].key => r3 \in {r1, r2})
            => posts[r2].status # 208

\* Whether a process was spawned in the place of pid.
Replaced(pid) == \E q \in WdPids : wd.procs[q].replaces = pid

\* C37, first half: the watchdog never kills a process; a running worker
\* whose interval is installed emits its heartbeat every 10 s.
C37_HeartbeatingNotKilled ==
    \A pid \in WdPids : ~wd.procs[pid].killed

\* C37, second half: a RestApiWorker that exited is eventually replaced.
C37_ExitedReplaced ==
    \A pid \in 1..MaxWdPid :
        (pid \in WdPids /\ wd.procs[pid].exited
            /\ wd.procs[pid].type = "RestApiWorker") ~> Replaced(pid)

\* Reachable: an exited worker whose interval had been installed has a
\* replacement.
C37_SeenThenReplaced ==
    \E pid \in WdPids :
        /\ wd.procs[pid].exited
        /\ wd.procs[pid].next # 0
        /\ Replaced(pid)

\* C38: successful + failed never exceeds total in the counter of a
\* GraphQLWorker.  It is stated for the states that follow a step of
\* getAllProjects.
C38_RequestAccounting ==
    gql.resolver = "getAllProjects" =>
        rcStats.successful + rcStats.failed <= rcStats.total

\* C39: every entry of the pending table under a type has a destination list
\* whose entries all have that type as their prefix.
C39_PendingDestinations ==
    \A T \in DOMAIN pendingMessages :
        \A i \in 1..Len(pendingMessages[T]) :
            \A j \in 1..Len(pendingMessages[T][i].destination) :
                WorkerNameOf(pendingMessages[T][i].destination[j]) = T

\* C39 witness: an envelope addressed to two types was routed, and the table
\* holds an entry for it under each of the two.
C39_Witness ==
    /\ last.kind = "message"
    /\ Cardinality(PrefixesOf(last.message.destination)) = 2
    /\ \A T \in PrefixesOf(last.message.destination) :
           HasId(pendingMessages[T], last.message.messageId)

====
